---- MODULE Spec2Model ----
(***************************************************************************)
(* Model of the weather plugin src/main.py (class WeatherStar).            *)
(*                                                                         *)
(* The host framework dispatches chat messages to three command handlers   *)
(* (get_weather, show_help, network_check).  Every handler is a coroutine  *)
(* (an async generator): it runs atomically between two suspension points, *)
(* which are the `yield` of a reply that is followed by more code and the  *)
(* `await` of an outbound HTTP request.  The only state shared between     *)
(* handlers is the dictionary self.cache.                                  *)
(***************************************************************************)
EXTENDS Integers, Sequences, FiniteSets, TLC

VARIABLES
    now,         \* time.time(), in whole seconds
    cache,       \* self.cache: location string -> Python value
    cmd,         \* per message: the command handler it was dispatched to
    pc,          \* per message: position of its handler
    args,        \* per message: event.args
    attempt,     \* per message: loop variable of _fetch_data
    req,         \* per message: the HTTP request its handler is awaiting
    replies,     \* per message: the CommandResults yielded so far
    primaryLog,  \* per message: outcomes of its main_api requests, in order
    backupLog,   \* per message: outcomes of its backup_api requests, in order
    caught,      \* per message: exceptions caught by get_weather's except clause
    results,     \* per message: network_check's list `results`
    escaped      \* messages whose handler raised into the host framework

vars == <<now, cache, cmd, pc, args, attempt, req, replies, primaryLog,
          backupLog, caught, results, escaped>>

-----------------------------------------------------------------------------
(* Bounds of the model *)

MaxTime == 450
TickStep == 150

\* the chat messages the host framework dispatches (each starts one handler)
Msgs == {"m1", "m2"}

\* values of event.args tried by the model
ArgChoices == {<<>>, <<"sh">>, <<"sh", "pd">>}

-----------------------------------------------------------------------------
(* Program constants, WeatherStar.__init__ *)

main_api == "https://xiaoapi.cn/API/tq.php"
backup_api == "https://api.weather.backup/v3"
baidu == "https://www.baidu.com"
timeout == 10
retry_count == 2
CacheTTL == 300
ProbeTimeout == 8

\* a request issued without a timeout argument
NoTimeout == 0 - 1

-----------------------------------------------------------------------------
(* Python values *)

PyFloat(x) == [type |-> "float", val |-> x]
PyTuple(items) == [type |-> "tuple", items |-> items]
TypeError == [type |-> "TypeError"]

\* float.__sub__: defined for numbers only; a tuple operand raises TypeError
PySub(a, b) ==
    IF a.type = "float" /\ b.type = "float"
    THEN PyFloat(a.val - b.val)
    ELSE TypeError

\* truth value of a Python value (a tuple is true iff it is not empty)
PyTruthy(v) ==
    CASE v.type = "tuple" -> Len(v.items) > 0
      [] v.type = "float" -> v.val # 0
      [] v.type = "str" -> Len(v.text) > 0
      [] OTHER -> TRUE

\* " ".join(words)
RECURSIVE Join(_)
Join(words) ==
    IF Len(words) = 0 THEN ""
    ELSE IF Len(words) = 1 THEN words[1]
    ELSE words[1] \o " " \o Join(Tail(words))

-----------------------------------------------------------------------------
(* Response bodies.  A body is the text an endpoint returned for a query:  *)
(* `text` is the sequence of fragments the parser's regular expressions    *)
(* can see in it (<<>> is the empty string).                               *)

Texts == {<<>>, <<"junk">>, <<"base", "warn", "rain">>}

Body(api, q, text) == [type |-> "str", api |-> api, q |-> q, text |-> text]

\* Optional[str]: <<>> is None, <<b>> is the string b
None == <<>>
Some(b) == <<b>>

\* truth value of an Optional[str]: None and "" are false
StrTruthy(r) == Len(r) = 1 /\ Len(r[1].text) > 0

\* outcomes of one HTTP request
Response(status, text) == [kind |-> "response", status |-> status, text |-> text, exc |-> ""]
Raises(exc) == [kind |-> "raise", status |-> 0, text |-> <<>>, exc |-> exc]

\* "ClientError" is aiohttp.ClientError; "TimeoutError" is the
\* asyncio.TimeoutError of an expired total timeout, which is an Exception
\* but not a ClientError
Outcomes ==
    {Response(200, t) : t \in Texts} \cup {Response(500, <<>>)}
    \cup {Raises("ClientError"), Raises("TimeoutError")}

\* what the logs of requests record of an outcome
Tag(o) == IF o.kind = "raise" THEN o.exc
          ELSE IF o.status = 200 THEN "200" ELSE "non200"

-----------------------------------------------------------------------------
(* _parse_weather and _build_message *)

RECURSIVE Warnings(_)
Warnings(text) ==
    IF Len(text) = 0 THEN <<>>
    ELSE IF Head(text) = "warn" THEN <<"! warning">> \o Warnings(Tail(text))
    ELSE Warnings(Tail(text))

HasRain(text) == \E k \in 1..Len(text) : text[k] = "rain"

_parse_weather(raw_data) ==
    LET base_info == Len(raw_data.text) > 0 /\ raw_data.text[1] = "base"
    IN  [location |-> IF base_info THEN raw_data.q ELSE "unknown",
         temp |-> IF base_info THEN "25C" ELSE "N/A",
         feel_temp |-> IF base_info THEN "26.5C" ELSE "N/A",
         humidity |-> IF base_info THEN "60%" ELSE "N/A",
         warnings |-> Warnings(raw_data.text),
         rains |-> IF HasRain(raw_data.text) THEN <<"rain here">> ELSE <<>>]

_build_message(data) ==
    <<"[" \o data.location \o " weather]",
      "temp: " \o data.temp \o " (feels " \o data.feel_temp \o ")",
      "humidity: " \o data.humidity,
      "">>
    \o (IF Len(data.warnings) > 0
        THEN <<"warnings:">> \o data.warnings \o <<"">>
        ELSE <<>>)
    \o (IF Len(data.rains) > 0
        THEN <<"rain:">> \o data.rains \o <<"">>
        ELSE <<>>)
    \o <<"source", "hint">>

-----------------------------------------------------------------------------
(* CommandResult *)

Message(text) == [kind |-> "message", text |-> text]
Error(text) == [kind |-> "error", text |-> text]

NoAddressError == Error(<<"please provide an address">>)
RadarError == Error(<<"radar signal lost, retry later">>)
_get_error_help == <<"service unavailable", "causes", "advice">>
WaitingNotice(location) == Message(<<"locating [" \o location \o "]...">>)
WeatherMessage(body) == Message(_build_message(_parse_weather(body)))
HelpMessage == Message(<<"help">>)

-----------------------------------------------------------------------------
(* HTTP requests *)

Request(url, key, val, t) == [url |-> url, key |-> key, val |-> val, timeout |-> t]
NoReq == Request("none", "", "", NoTimeout)

\* network_check's test_points
test_points ==
    <<[name |-> "main", url |-> main_api],
      [name |-> "backup", url |-> backup_api],
      [name |-> "baidu", url |-> baidu]>>

ProbeOutcomes == {Response(200, <<>>), Response(500, <<>>), Raises("TimeoutError")}

-----------------------------------------------------------------------------
(* Exception handling *)

\* the classes derived from Exception that the model raises
ExceptionClasses == {"TypeError", "TimeoutError", "ClientError"}

\* variant: get_weather catches aiohttp.ClientError only
GetWeatherCatchesClientError(exc) == exc = "ClientError"

\* get_weather: except Exception
GetWeatherCatches(exc) == exc \in ExceptionClasses

\* _fetch_data: except aiohttp.ClientError
FetchCatches(exc) == exc = "ClientError"

\* _try_backup_api: except Exception
BackupCatches(exc) == exc \in ExceptionClasses

\* network_check: except Exception
ProbeCatches(exc) == exc \in ExceptionClasses

\* variant: the except clause of get_weather only logs
ExceptRepliesNone == <<>>

\* what get_weather's except clause yields
ExceptReplies == <<RadarError>>

-----------------------------------------------------------------------------
(* Pieces of get_weather and _fetch_data *)

Set(f, m, v) == [f EXCEPT ![m] = v]

\* if not event.args
ArgsMissing(a) == Len(a) = 0

\* variant: range(self.retry_count + 2)
LoopContinuesOneMore(a) == a + 1 < retry_count + 2

\* for attempt in range(self.retry_count + 1): is there an iteration after a
LoopContinues(a) == a + 1 < retry_count + 1

\* variant: the fallback is taken one attempt early
ExhaustedEarly(a) == a >= retry_count - 1

\* if attempt >= self.retry_count
Exhausted(a) == a >= retry_count

\* variant: self.cache = {location: (time.time(), data)}
CacheStoreReset(c, location, t, data) ==
    [l \in {location} |-> PyTuple(<<PyFloat(t), data>>)]

\* self.cache[location] = (time.time(), data)
CacheStore(c, location, t, data) ==
    [l \in DOMAIN c \cup {location} |->
        IF l = location THEN PyTuple(<<PyFloat(t), data>>) ELSE c[l]]

\* variant: a failed fetch is not reported to the user
FetchRepliesSilent(raw_data) ==
    IF StrTruthy(raw_data)
    THEN <<WeatherMessage(raw_data[1])>>
    ELSE <<>>

\* the replies that follow `raw_data := await self._fetch_data(location)`
FetchReplies(raw_data) ==
    IF StrTruthy(raw_data)
    THEN <<WeatherMessage(raw_data[1])>>
    ELSE <<Error(_get_error_help)>>

\* an exception exc reaches the try block of get_weather
Raise(m, exc) ==
    /\ pc' = Set(pc, m, "done")
    /\ req' = Set(req, m, NoReq)
    /\ IF GetWeatherCatches(exc)
       THEN /\ replies' = Set(replies, m, replies[m] \o ExceptReplies)
            /\ caught' = Set(caught, m, Append(caught[m], exc))
            /\ UNCHANGED escaped
       ELSE /\ escaped' = escaped \cup {m}
            /\ UNCHANGED <<replies, caught>>
    /\ UNCHANGED attempt

\* _fetch_data returns raw_data and get_weather yields its final reply
Return(m, raw_data) ==
    /\ pc' = Set(pc, m, "done")
    /\ req' = Set(req, m, NoReq)
    /\ replies' = Set(replies, m, replies[m] \o FetchReplies(raw_data))
    /\ UNCHANGED <<caught, escaped, attempt>>

\* session.get(self.main_api, params=params) with timeout=self.timeout
SendPrimary(m, a) ==
    /\ pc' = Set(pc, m, "await_primary")
    /\ attempt' = Set(attempt, m, a)
    /\ req' = Set(req, m, Request(main_api, "msg", Join(args[m]), timeout))
    /\ UNCHANGED <<replies, caught, escaped>>

\* session.get(self.backup_api, params={"q": location}), no timeout given
SendBackup(m) ==
    /\ pc' = Set(pc, m, "await_backup")
    /\ req' = Set(req, m, Request(backup_api, "q", Join(args[m]), NoTimeout))
    /\ UNCHANGED <<replies, caught, escaped, attempt>>

-----------------------------------------------------------------------------
(* Initial state: no handler running, empty cache *)

Init ==
    /\ now = 0
    /\ cache = [l \in {} |-> TypeError]
    /\ cmd = [m \in Msgs |-> "none"]
    /\ pc = [m \in Msgs |-> "idle"]
    /\ args = [m \in Msgs |-> <<>>]
    /\ attempt = [m \in Msgs |-> 0]
    /\ req = [m \in Msgs |-> NoReq]
    /\ replies = [m \in Msgs |-> <<>>]
    /\ primaryLog = [m \in Msgs |-> <<>>]
    /\ backupLog = [m \in Msgs |-> <<>>]
    /\ caught = [m \in Msgs |-> <<>>]
    /\ results = [m \in Msgs |-> <<>>]
    /\ escaped = {}

-----------------------------------------------------------------------------
(* Actions *)

\* the clock advances
Tick ==
    /\ now + TickStep <= MaxTime
    /\ now' = now + TickStep
    /\ UNCHANGED <<cache, cmd, pc, args, attempt, req, replies, primaryLog,
                   backupLog, caught, results, escaped>>

\* get_weather up to its first yield: argument check and waiting notice
GetWeatherStart(m, a) ==
    /\ pc[m] = "idle"
    /\ cmd' = Set(cmd, m, "weather")
    /\ args' = Set(args, m, a)
    /\ IF ArgsMissing(a)
       THEN /\ replies' = Set(replies, m, <<NoAddressError>>)
            /\ pc' = Set(pc, m, "done")
       ELSE /\ replies' = Set(replies, m, <<WaitingNotice(Join(a))>>)
            /\ pc' = Set(pc, m, "notice")
    /\ UNCHANGED <<now, cache, attempt, req, primaryLog, backupLog, caught,
                   results, escaped>>

\* get_weather resumed after the notice: cache check, then the first request
GetWeatherLookup(m) ==
    /\ pc[m] = "notice"
    /\ LET location == Join(args[m])
       IN  IF location \in DOMAIN cache /\ PyTruthy(cache[location])
           THEN LET cached == cache[location]
                    age == PySub(PyFloat(now), cached)
                IN  IF age = TypeError
                    THEN Raise(m, "TypeError")
                    ELSE IF age.val < CacheTTL
                    THEN IF cached.type # "str"
                         THEN Raise(m, "TypeError")
                         ELSE /\ pc' = Set(pc, m, "done")
                              /\ replies' = Set(replies, m,
                                     Append(replies[m], WeatherMessage(cached)))
                              /\ UNCHANGED <<req, caught, escaped, attempt>>
                    ELSE SendPrimary(m, 0)
           ELSE SendPrimary(m, 0)
    /\ UNCHANGED <<now, cache, cmd, args, primaryLog, backupLog, results>>

\* the awaited main_api request of _fetch_data completes with outcome o
PrimaryResponse(m, o) ==
    /\ pc[m] = "await_primary"
    /\ primaryLog' = Set(primaryLog, m, Append(primaryLog[m], Tag(o)))
    /\ LET location == Join(args[m])
           data == Body(main_api, location, o.text)
       IN  IF o.kind = "response"
           THEN IF o.status = 200
                THEN /\ cache' = CacheStore(cache, location, now, data)
                     /\ Return(m, Some(data))
                ELSE /\ UNCHANGED cache
                     /\ IF LoopContinues(attempt[m])
                        THEN SendPrimary(m, attempt[m] + 1)
                        ELSE Return(m, None)
           ELSE /\ UNCHANGED cache
                /\ IF FetchCatches(o.exc)
                   THEN IF Exhausted(attempt[m])
                        THEN SendBackup(m)
                        ELSE IF LoopContinues(attempt[m])
                        THEN SendPrimary(m, attempt[m] + 1)
                        ELSE Return(m, None)
                   ELSE Raise(m, o.exc)
    /\ UNCHANGED <<now, cmd, args, backupLog, results>>

\* the awaited backup_api request of _try_backup_api completes with outcome o
BackupResponse(m, o) ==
    /\ pc[m] = "await_backup"
    /\ backupLog' = Set(backupLog, m, Append(backupLog[m], Tag(o)))
    /\ IF o.kind = "response"
       THEN IF o.status = 200
            THEN Return(m, Some(Body(backup_api, Join(args[m]), o.text)))
            ELSE Return(m, None)
       ELSE IF BackupCatches(o.exc)
            THEN Return(m, None)
            ELSE Raise(m, o.exc)
    /\ UNCHANGED <<now, cache, cmd, args, primaryLog, results>>

\* show_help
ShowHelp(m) ==
    /\ pc[m] = "idle"
    /\ cmd' = Set(cmd, m, "help")
    /\ replies' = Set(replies, m, <<HelpMessage>>)
    /\ pc' = Set(pc, m, "done")
    /\ UNCHANGED <<now, cache, args, attempt, req, primaryLog, backupLog,
                   caught, results, escaped>>

\* session.get(url, timeout=8) for the k-th test point
Probe(k) == Request(test_points[k].url, "", "", ProbeTimeout)

\* network_check up to its first request
NetworkCheckStart(m) ==
    /\ pc[m] = "idle"
    /\ cmd' = Set(cmd, m, "diag")
    /\ req' = Set(req, m, Probe(1))
    /\ pc' = Set(pc, m, "await_probe")
    /\ UNCHANGED <<now, cache, args, attempt, replies, primaryLog, backupLog,
                   caught, results, escaped>>

\* the line network_check records for a probe
ProbeStatus(o) ==
    IF o.kind = "raise" THEN "fault(" \o o.exc \o ")"
    ELSE IF o.status = 200 THEN "ok" ELSE "bad(500)"

Report(rs) == Message(<<"diagnosis">> \o rs \o <<"advice">>)

\* the awaited probe of network_check completes with outcome o
ProbeResponse(m, o) ==
    /\ pc[m] = "await_probe"
    /\ LET k == Len(results[m]) + 1
           line == test_points[k].name \o ": " \o ProbeStatus(o)
           rs == Append(results[m], line)
       IN  IF o.kind = "raise" /\ ~ProbeCatches(o.exc)
           THEN /\ escaped' = escaped \cup {m}
                /\ pc' = Set(pc, m, "done")
                /\ req' = Set(req, m, NoReq)
                /\ UNCHANGED <<results, replies>>
           ELSE /\ results' = Set(results, m, rs)
                /\ UNCHANGED escaped
                /\ IF k < Len(test_points)
                   THEN /\ req' = Set(req, m, Probe(k + 1))
                        /\ UNCHANGED <<pc, replies>>
                   ELSE /\ req' = Set(req, m, NoReq)
                        /\ pc' = Set(pc, m, "done")
                        /\ replies' = Set(replies, m, <<Report(rs)>>)
    /\ UNCHANGED <<now, cache, cmd, args, attempt, primaryLog, backupLog, caught>>

Next ==
    \/ Tick
    \/ \E m \in Msgs, a \in ArgChoices : GetWeatherStart(m, a)
    \/ \E m \in Msgs : GetWeatherLookup(m)
    \/ \E m \in Msgs, o \in Outcomes : PrimaryResponse(m, o)
    \/ \E m \in Msgs, o \in Outcomes : BackupResponse(m, o)
    \/ \E m \in Msgs : ShowHelp(m)
    \/ \E m \in Msgs : NetworkCheckStart(m)
    \/ \E m \in Msgs, o \in ProbeOutcomes : ProbeResponse(m, o)

Spec == Init /\ [][Next]_vars

\* every started handler step is eventually taken and every awaited request
\* eventually completes; messages need not arrive
Progress(m) ==
    \/ GetWeatherLookup(m)
    \/ \E o \in Outcomes : PrimaryResponse(m, o)
    \/ \E o \in Outcomes : BackupResponse(m, o)
    \/ \E o \in ProbeOutcomes : ProbeResponse(m, o)

FairSpec == Spec /\ \A m \in Msgs : WF_vars(Progress(m))

-----------------------------------------------------------------------------
(* Vocabulary of the properties *)

IsWeather(m) == cmd[m] = "weather"
Location(m) == Join(args[m])
Terminal(m) == replies[m][Len(replies[m])]
InLog(log, tag) == \E k \in 1..Len(log) : log[k] = tag

\* requests a get_weather invocation has issued so far
PrimarySent(m) == Len(primaryLog[m]) + (IF pc[m] = "await_primary" THEN 1 ELSE 0)
BackupSent(m) == Len(backupLog[m]) + (IF pc[m] = "await_backup" THEN 1 ELSE 0)

\* the cache entry of location l: when it was written and what it holds
WrittenAt(l) == cache[l].items[1].val
CachedBody(l) == cache[l].items[2]
Fresh(l) == l \in DOMAIN cache /\ now - WrittenAt(l) < CacheTTL
Stale(l) == l \in DOMAIN cache /\ now - WrittenAt(l) >= CacheTTL

\* m takes the step that follows its waiting notice
Resumes(m) == pc[m] = "notice" /\ pc'[m] # "notice"

\* m receives HTTP 200 from main_api in this step
Primary200(m) ==
    pc[m] = "await_primary" /\ primaryLog'[m] = Append(primaryLog[m], "200")

\* the bodies an endpoint can return for location l
MainBodies(l) == {Body(main_api, l, t) : t \in Texts}
BackupBodies(l) == {Body(backup_api, l, t) : t \in Texts}

-----------------------------------------------------------------------------
(* C1: a get_weather invocation that finds a cache entry younger than 300  *)
(* seconds for its location replies with the weather message built from    *)
(* the cached text, issues no HTTP request and sends no error.             *)
CacheReuse ==
    [][\A m \in Msgs :
          (Resumes(m) /\ Fresh(Location(m))) =>
              /\ pc'[m] = "done"
              /\ replies'[m] = Append(replies[m], WeatherMessage(CachedBody(Location(m))))
              /\ req'[m] = NoReq
              /\ primaryLog'[m] = <<>> /\ backupLog'[m] = <<>>]_vars

FallbackBeforeError ==
    \A m \in Msgs :
        (/\ IsWeather(m) /\ pc[m] = "done"
         /\ primaryLog[m] # <<>>
         /\ ~InLog(primaryLog[m], "200")
         /\ Terminal(m).kind = "error") => backupLog[m] # <<>>

(* C4: an invocation that finds a cache entry of age 300 seconds or more   *)
(* ignores it and sends the primary request as for an uncached location;   *)
(* an HTTP 200 answer replaces the entry by (now, body) and the reply is   *)
(* the weather message built from that body.                               *)
StaleRefetch ==
    [][\A m \in Msgs :
          /\ (Resumes(m) /\ Stale(Location(m))) =>
                /\ pc'[m] = "await_primary"
                /\ req'[m] = Request(main_api, "msg", Location(m), timeout)
                /\ replies'[m] = replies[m]
          /\ Primary200(m) =>
                /\ Location(m) \in DOMAIN cache'
                /\ cache'[Location(m)].items[1] = PyFloat(now)
                /\ cache'[Location(m)].items[2] \in MainBodies(Location(m))
                /\ replies'[m] = replies[m] \o FetchReplies(Some(cache'[Location(m)].items[2]))]_vars

(* C5, as stated: _fetch_data requests the primary endpoint at most twice  *)
(* in one invocation.                                                      *)
AtMostTwoPrimary ==
    \A m \in Msgs : PrimarySent(m) <= 2

(* C5, amended: _fetch_data requests the primary endpoint at most          *)
(* retry_count + 1 = 3 times in one invocation, and after the third        *)
(* failed attempt no further primary request is made.                      *)
AtMostThreePrimary ==
    \A m \in Msgs :
        /\ PrimarySent(m) <= retry_count + 1
        /\ Len(primaryLog[m]) = retry_count + 1 => pc[m] # "await_primary"
        /\ pc[m] = "await_primary" => attempt[m] = Len(primaryLog[m])

AtMostThreePrimaryWitness ==
    \E m \in Msgs :
        /\ pc[m] = "done"
        /\ primaryLog[m] = <<"ClientError", "non200", "non200">>

(* C6, as stated (its second half): between its start and its end a        *)
(* get_weather invocation is suspended only while it awaits an outbound    *)
(* HTTP request.                                                           *)
SuspendsOnlyOnHttp ==
    \A m \in Msgs :
        (IsWeather(m) /\ pc[m] # "done") => pc[m] \in {"await_primary", "await_backup"}

\* m has ended and has sent its final reply
FinalReplySent(m) ==
    /\ pc[m] = "done"
    /\ Len(replies[m]) = (IF ArgsMissing(args[m]) THEN 1 ELSE 2)

(* C6, amended: if every awaited request completes, every get_weather      *)
(* invocation ends having sent its final reply; until then it is suspended *)
(* only at the yield of the waiting notice or while it awaits an outbound  *)
(* HTTP request, and it awaits exactly one request at a time.              *)
RunToCompletion ==
    /\ \A m \in Msgs : IsWeather(m) ~> FinalReplySent(m)
    /\ [](\A m \in Msgs : IsWeather(m) =>
            /\ pc[m] \in {"notice", "await_primary", "await_backup", "done"}
            /\ pc[m] = "notice" =>
                  (req[m] = NoReq /\ primaryLog[m] = <<>> /\ backupLog[m] = <<>>)
            /\ pc[m] = "await_primary" => req[m].url = main_api
            /\ pc[m] = "await_backup" => req[m].url = backup_api)

RunToCompletionWitness ==
    \E m1, m2 \in Msgs :
        /\ IsWeather(m1) /\ pc[m1] = "notice"
        /\ IsWeather(m2) /\ FinalReplySent(m2) /\ backupLog[m2] # <<>>
        /\ Location(m1) = Location(m2)

(* C7: every outbound request a handler awaits was issued with an          *)
(* explicitly configured timeout.                                          *)
EveryRequestHasTimeout ==
    \A m \in Msgs : req[m] # NoReq => req[m].timeout # NoTimeout

(* C8: get_weather with empty arguments sends exactly one reply (the       *)
(* address error), no request, and leaves the cache alone; with arguments  *)
(* it sends the waiting notice naming the joined location and then exactly *)
(* one terminal reply, a weather message or an error, on every path.       *)
ReplyProtocol ==
    /\ [](\A m \in Msgs : IsWeather(m) =>
            IF ArgsMissing(args[m])
            THEN /\ pc[m] = "done"
                 /\ replies[m] = <<NoAddressError>>
                 /\ PrimarySent(m) = 0 /\ BackupSent(m) = 0 /\ req[m] = NoReq
            ELSE /\ Len(replies[m]) \in {1, 2}
                 /\ replies[m][1] = WaitingNotice(Location(m))
                 /\ Len(replies[m]) = 2 <=> pc[m] = "done"
                 /\ Len(replies[m]) = 2 =>
                       replies[m][2] \in
                           {WeatherMessage(b) : b \in MainBodies(Location(m))
                                                      \cup BackupBodies(Location(m))}
                           \cup {Error(_get_error_help), RadarError})
    /\ [][\A m \in Msgs :
            /\ (pc[m] = "idle" /\ IsWeather(m)' /\ ArgsMissing(args'[m])) => cache' = cache
            /\ pc[m] = "done" => (pc'[m] = "done" /\ replies'[m] = replies[m])]_vars

ReplyProtocolWitness ==
    \E m1, m2 \in Msgs :
        /\ IsWeather(m1) /\ ArgsMissing(args[m1]) /\ Len(replies[m1]) = 1
        /\ IsWeather(m2) /\ args[m2] = <<"sh", "pd">> /\ pc[m2] = "done"
        /\ replies[m2][1] = Message(<<"locating [sh pd]...">>)
        /\ replies[m2][2] = Error(_get_error_help)
        /\ backupLog[m2] = <<"200">>

(* C9: the cache changes only in the step in which a main_api request      *)
(* returns HTTP 200, which sets the entry of the queried location to       *)
(* (now, body) and touches no other entry; so every entry for location l   *)
(* holds a body main_api returned for l, and no entry is ever removed.     *)
CacheFrame ==
    /\ [][/\ cache' # cache =>
               \E m \in Msgs, t \in Texts :
                   /\ Primary200(m)
                   /\ DOMAIN cache' = DOMAIN cache \cup {Location(m)}
                   /\ \A l \in DOMAIN cache' :
                         cache'[l] = IF l = Location(m)
                                     THEN PyTuple(<<PyFloat(now), Body(main_api, l, t)>>)
                                     ELSE cache[l]
          /\ \A m \in Msgs : Primary200(m) =>
               /\ Location(m) \in DOMAIN cache'
               /\ cache'[Location(m)].items[1] = PyFloat(now)]_vars
    /\ [](\A l \in DOMAIN cache :
            /\ CachedBody(l) \in MainBodies(l)
            /\ WrittenAt(l) <= now
            /\ \E m \in Msgs : IsWeather(m) /\ Location(m) = l
                               /\ InLog(primaryLog[m], "200"))

CacheFrameWitness ==
    \E m1, m2 \in Msgs :
        /\ backupLog[m1] = <<"200">> /\ pc[m1] = "done"
        /\ Location(m1) \notin DOMAIN cache
        /\ Location(m2) \in DOMAIN cache
        /\ WrittenAt(Location(m2)) < now

(* C10: an invocation requests the backup endpoint at most once, only      *)
(* after retry_count + 1 primary attempts of which the last raised a       *)
(* client error, and never after a primary HTTP 200; a primary HTTP 200    *)
(* ends _fetch_data at once with that body and no further request.         *)
BackupLastResort ==
    /\ [](\A m \in Msgs :
            /\ BackupSent(m) <= 1
            /\ BackupSent(m) = 1 =>
                  /\ Len(primaryLog[m]) = retry_count + 1
                  /\ primaryLog[m][retry_count + 1] = "ClientError"
                  /\ ~InLog(primaryLog[m], "200")
            /\ \A k \in 1..Len(primaryLog[m]) : primaryLog[m][k] = "200" =>
                  /\ k = Len(primaryLog[m])
                  /\ pc[m] = "done" /\ req[m] = NoReq /\ backupLog[m] = <<>>)
    /\ [][\A m \in Msgs : Primary200(m) =>
            /\ pc'[m] = "done" /\ req'[m] = NoReq
            /\ \E b \in MainBodies(Location(m)) :
                  replies'[m] = replies[m] \o FetchReplies(Some(b))]_vars

BackupLastResortWitness ==
    \E m1, m2 \in Msgs :
        /\ pc[m1] = "await_backup"
        /\ primaryLog[m1] = <<"non200", "ClientError", "ClientError">>
        /\ primaryLog[m2] = <<"ClientError", "200">> /\ pc[m2] = "done"

====
